---- MODULE Spec2Model ----
(***************************************************************************)
(* Backtester of backend/AI/backtester.py: the portfolio ledger, the trade *)
(* executor (execute_trade), the valuation (calculate_portfolio_value) and *)
(* the day loop of run_backtest, and the performance metrics               *)
(* (_update_performance_metrics, analyze_performance), which are computed  *)
(* from the value series alone, on series of small values (SpecMetrics).   *)
(*                                                                         *)
(* Money is counted in whole currency units (prices, cash and capital are  *)
(* integers); cost_basis and realized_gains, which the code obtains by a   *)
(* division, are exact rationals [n, d] in lowest terms.  Floating-point   *)
(* rounding is not modelled.                                               *)
(***************************************************************************)
EXTENDS Integers, Sequences, FiniteSets, TLC

\* ------------------------------------------------------------------ bounds
MaxPrice == 2
\* Requested quantities are floats: they are counted in half shares.
MaxHalves == 5
MaxCapital == 5
MaxCalls == 3
\* The date range: end_date is day LastDay, start_date at most MaxSpan days
\* before it (or one day after it).  Day d falls on weekday d % 7, 0 a Monday.
LastDay == 7
MaxSpan == 4

\* The tickers list handed to the constructor.
tickers == <<"A", "B">>
TickerSet == {tickers[i] : i \in 1..Len(tickers)}

Actions == {"buy", "sell", "short", "cover", "hold", "other"}
\* A close price of the price source; 0 is a value the source can deliver.
Prices == 0..MaxPrice
\* A requested quantity k stands for the float k / 2, k possibly <= 0.
Quantities == (0 - 1)..MaxHalves
InitialCapitals == {0, MaxCapital \div 2, MaxCapital}
StartDates == (LastDay - MaxSpan)..(LastDay + 1)
\* The closes the price source delivers during a run.
RunPrices == 1..MaxPrice
\* What the agent may decide for a ticker during a run.
AgentActions == {"buy", "sell", "hold"}
AgentQuantities == {MaxHalves}
\* A decision is a mapping that may lack its action or its quantity.
AgentDecisions ==
    [action : AgentActions, quantity : AgentQuantities]
        \cup [action : {"buy"}] \cup [quantity : AgentQuantities]

\* ------------------------------------------------------- exact rationals
Abs(x) == IF x < 0 THEN 0 - x ELSE x

RECURSIVE GCD(_, _)
GCD(a, b) == IF b = 0 THEN a ELSE GCD(b, a % b)

\* The element of a one-element set.  The operators below bind their arguments
\* through one (x \in {e}), so that an argument is evaluated once however
\* often it is used.
Only(S) == CHOOSE x \in S : TRUE

\* n / d in lowest terms, d > 0.
Rat(n, d) ==
    Only({ IF x = 0 THEN [n |-> 0, d |-> 1]
           ELSE [n |-> x \div g, d |-> y \div g] :
               x \in {n}, y \in {d}, g \in {GCD(Abs(n), d)} })

Zero == Rat(0, 1)
RAdd(x, y) == Only({ Rat(a.n * b.d + b.n * a.d, a.d * b.d) : a \in {x}, b \in {y} })
RSub(x, y) == Only({ Rat(a.n * b.d - b.n * a.d, a.d * b.d) : a \in {x}, b \in {y} })
RScale(x, k) == Only({ Rat(a.n * k, a.d) : a \in {x} })
RDivInt(x, k) == Only({ Rat(a.n, a.d * k) : a \in {x} })
RFromInt(k) == Rat(k, 1)

\* ---------------------------------------------------------------- state
VARIABLES
    initial_capital,   \* self.initial_capital
    start_date,        \* self.start_date
    end_date,          \* self.end_date
    portfolio,         \* self.portfolio: cash, positions, realized_gains
    portfolio_values,  \* self.portfolio_values
    call,              \* the call that has just returned: arguments, result,
                       \*   the portfolio before it ("none" between calls)
    prev,              \* the call before `call`, summarised, when it was a
                       \*   buy that opened a position and was filled in full
                       \*   (the first half of a round trip)
    ncalls,            \* number of calls made so far
    pc,                \* run_backtest: where the run stands
    day,               \* run_backtest: index of current_date in dates
    tk,                \* run_backtest: index of the ticker whose price is fetched
    current_prices,    \* run_backtest: current_prices
    missing_data,      \* run_backtest: missing_data
    decisions,         \* run_backtest: decisions (the agent's output)
    executed_trades,   \* run_backtest: executed_trades
    day_log,           \* history of the current day: what was done on it
    usable,            \* history: the dates whose prices were all retrieved
    visited,           \* history: the dates the loop has reached
    performance_metrics  \* run_backtest: performance_metrics

apivars == <<call, prev, ncalls>>
runvars == <<pc, day, tk, current_prices, missing_data, decisions,
             executed_trades, day_log, usable, visited>>
metricvars == <<performance_metrics>>
vars == <<initial_capital, start_date, end_date, portfolio, portfolio_values,
          call, prev, ncalls, pc, day, tk, current_prices, missing_data,
          decisions, executed_trades, day_log, usable, visited,
          performance_metrics>>

\* Backtester.__init__: the portfolio of a fresh Backtester.
NewPortfolio(capital) ==
    [cash |-> capital,
     positions |-> [t \in TickerSet |-> [shares |-> 0, cost_basis |-> Zero]],
     realized_gains |-> [t \in TickerSet |-> Zero]]

\* ------------------------------------------------------- execute_trade
\* Variant of IntQty: rounds to the nearest whole share (round, not int).
IntQty_rounded(k) == (k + 1) \div 2

\* int(quantity) of a positive float k / 2.
IntQty(k) == k \div 2

\* Variant of weighted_cost_basis: the cost of the old shares is left out.
weighted_cost_basis_new_lot_only(old_shares, old_cost_basis, cost, total_shares) ==
    RDivInt(RFromInt(cost), total_shares)

\* position["cost_basis"] = (total_old_cost + total_new_cost) / total_shares
weighted_cost_basis(old_shares, old_cost_basis, cost, total_shares) ==
    RDivInt(RAdd(RScale(old_cost_basis, old_shares), RFromInt(cost)), total_shares)

\* Variant of buy_fill: the lot is merged but the cash is not debited.
buy_fill_undebited(pf, ticker, quantity, cost) ==
    LET position == pf.positions[ticker]
        total_shares == position.shares + quantity
    IN  [pf EXCEPT !.positions[ticker] =
                       [shares |-> total_shares,
                        cost_basis |-> IF total_shares > 0
                                       THEN weighted_cost_basis(position.shares,
                                                position.cost_basis, cost, total_shares)
                                       ELSE position.cost_basis]]

\* The body shared by the two buy branches: merge the lot and debit cash.
buy_fill(pf, ticker, quantity, cost) ==
    LET position == pf.positions[ticker]
        old_shares == position.shares
        total_shares == old_shares + quantity
        basis == IF total_shares > 0
                 THEN weighted_cost_basis(old_shares, position.cost_basis,
                                          cost, total_shares)
                 ELSE position.cost_basis
    IN  [pf EXCEPT !.positions[ticker] =
                       [shares |-> old_shares + quantity, cost_basis |-> basis],
                   !.cash = pf.cash - cost]

\* Variant of max_affordable: the quotient rounded up.
max_affordable_ceil(cash, current_price) ==
    (cash + current_price - 1) \div current_price

\* max_quantity = int(self.portfolio["cash"] / current_price)
max_affordable(cash, current_price) == cash \div current_price

\* Variant of sell_quantity: the request is not clamped to the holding.
sell_quantity_unclamped(quantity, shares) == quantity

\* quantity = min(quantity, position["shares"])
sell_quantity(quantity, shares) == IF quantity < shares THEN quantity ELSE shares

\* Variant of realized_gain: the proceeds, the cost basis not subtracted.
realized_gain_gross(current_price, avg_cost_per_share, quantity) ==
    RScale(RFromInt(current_price), quantity)

\* realized_gain = (current_price - avg_cost_per_share) * quantity
realized_gain(current_price, avg_cost_per_share, quantity) ==
    RScale(RSub(RFromInt(current_price), avg_cost_per_share), quantity)

\* Variant of basis_after_sell: no reset on liquidation.
basis_after_sell_kept(shares_left, cost_basis) == cost_basis

\* if position["shares"] == 0: position["cost_basis"] = 0.0
basis_after_sell(shares_left, cost_basis) ==
    IF shares_left = 0 THEN Zero ELSE cost_basis

\* Variant of sell_fill: the gain is booked on every ticker.
sell_fill_gain_everywhere(pf, ticker, quantity, current_price) ==
    LET position == pf.positions[ticker]
        avg_cost_per_share == IF position.shares > 0 THEN position.cost_basis ELSE Zero
        gain == realized_gain(current_price, avg_cost_per_share, quantity)
        left == position.shares - quantity
    IN  [pf EXCEPT !.realized_gains = [t \in TickerSet |->
                                          RAdd(pf.realized_gains[t], gain)],
                   !.positions[ticker] =
                       [shares |-> left,
                        cost_basis |-> basis_after_sell(left, position.cost_basis)],
                   !.cash = pf.cash + quantity * current_price]

\* Variant of sell_fill: the proceeds are not credited to cash.
sell_fill_uncredited(pf, ticker, quantity, current_price) ==
    LET position == pf.positions[ticker]
        avg_cost_per_share == IF position.shares > 0 THEN position.cost_basis ELSE Zero
        gain == realized_gain(current_price, avg_cost_per_share, quantity)
        left == position.shares - quantity
    IN  [pf EXCEPT !.realized_gains[ticker] = RAdd(pf.realized_gains[ticker], gain),
                   !.positions[ticker] =
                       [shares |-> left,
                        cost_basis |-> basis_after_sell(left, position.cost_basis)]]

\* The sell branch once quantity > 0: the gain, the shares, the cash, the reset.
sell_fill(pf, ticker, quantity, current_price) ==
    LET position == pf.positions[ticker]
        avg_cost_per_share == IF position.shares > 0 THEN position.cost_basis ELSE Zero
        gain == realized_gain(current_price, avg_cost_per_share, quantity)
        left == position.shares - quantity
    IN  [pf EXCEPT !.realized_gains[ticker] = RAdd(pf.realized_gains[ticker], gain),
                   !.positions[ticker] =
                       [shares |-> left,
                        cost_basis |-> basis_after_sell(left, position.cost_basis)],
                   !.cash = pf.cash + quantity * current_price]

\* The amount a buy of `quantity` at `current_price` asks for.
buy_cost(quantity, current_price) == quantity * current_price

\* Variant of execute_trade: a cover is executed as a buy.
execute_trade_cover_buys(pf, ticker, action, qk, current_price) ==
    IF qk <= 0 THEN [pf |-> pf, ret |-> 0]
    ELSE
    LET quantity == IntQty(qk)
        position == pf.positions[ticker]
    IN  IF action \in {"buy", "cover"} THEN
            LET cost == buy_cost(quantity, current_price)
            IN  IF cost <= pf.cash
                THEN [pf |-> buy_fill(pf, ticker, quantity, cost), ret |-> quantity]
                ELSE LET max_quantity == max_affordable(pf.cash, current_price)
                     IN  IF max_quantity > 0
                         THEN [pf |-> buy_fill(pf, ticker, max_quantity,
                                               buy_cost(max_quantity, current_price)),
                               ret |-> max_quantity]
                         ELSE [pf |-> pf, ret |-> 0]
        ELSE IF action = "sell" THEN
            LET sold == sell_quantity(quantity, position.shares)
            IN  IF sold > 0
                THEN [pf |-> sell_fill(pf, ticker, sold, current_price), ret |-> sold]
                ELSE [pf |-> pf, ret |-> 0]
        ELSE [pf |-> pf, ret |-> 0]

\* execute_trade(ticker, action, quantity, current_price): the portfolio it
\* leaves and the value it returns.  `qk` is the float quantity qk / 2.
execute_trade(pf, ticker, action, qk, current_price) ==
    IF qk <= 0 THEN [pf |-> pf, ret |-> 0]
    ELSE
    LET quantity == IntQty(qk)
        position == pf.positions[ticker]
    IN  IF action = "buy" THEN
            LET cost == buy_cost(quantity, current_price)
            IN  IF cost <= pf.cash
                THEN [pf |-> buy_fill(pf, ticker, quantity, cost), ret |-> quantity]
                ELSE LET max_quantity == max_affordable(pf.cash, current_price)
                     IN  IF max_quantity > 0
                         THEN [pf |-> buy_fill(pf, ticker, max_quantity,
                                               buy_cost(max_quantity, current_price)),
                               ret |-> max_quantity]
                         ELSE [pf |-> pf, ret |-> 0]
        ELSE IF action = "sell" THEN
            LET sold == sell_quantity(quantity, position.shares)
            IN  IF sold > 0
                THEN [pf |-> sell_fill(pf, ticker, sold, current_price), ret |-> sold]
                ELSE [pf |-> pf, ret |-> 0]
        ELSE [pf |-> pf, ret |-> 0]

\* ------------------------------------------- calculate_portfolio_value
\* A price map is a function from some of the tickers to prices.
PriceMaps == UNION {[S -> Prices] : S \in SUBSET TickerSet}

\* Variant of value_loop: a ticker without a price is valued at 0.
RECURSIVE value_loop_missing_as_zero(_, _, _, _)
value_loop_missing_as_zero(pf, prices, i, total_value) ==
    IF i > Len(tickers) THEN [raised |-> FALSE, value |-> total_value]
    ELSE IF tickers[i] \notin DOMAIN prices
         THEN value_loop_missing_as_zero(pf, prices, i + 1, total_value)
         ELSE value_loop_missing_as_zero(pf, prices, i + 1,
                         total_value + pf.positions[tickers[i]].shares
                                       * prices[tickers[i]])

\* The loop over self.tickers, from position i on; "KeyError" when
\* the price map has no entry for the ticker.
RECURSIVE value_loop(_, _, _, _)
value_loop(pf, prices, i, total_value) ==
    IF i > Len(tickers) THEN [raised |-> FALSE, value |-> total_value]
    ELSE IF tickers[i] \notin DOMAIN prices
         THEN [raised |-> TRUE, value |-> 0]
         ELSE value_loop(pf, prices, i + 1,
                         total_value + pf.positions[tickers[i]].shares
                                       * prices[tickers[i]])

\* Variant of calculate_portfolio_value: the total starts at 0, not at cash.
calculate_portfolio_value_no_cash(pf, prices) ==
    value_loop(pf, prices, 1, 0)

calculate_portfolio_value(pf, prices) ==
    value_loop(pf, prices, 1, pf.cash)

\* ----------------------------------------------------------- the calls
NoCall ==
    [op |-> "none", ticker |-> "", action |-> "", qk |-> 0, price |-> 0,
     prices |-> <<>>, ret |-> 0, raised |-> FALSE, before |-> NewPortfolio(0)]

NoLot == [ticker |-> "", shares |-> 0, price |-> 0, cash |-> 0, gains |-> Zero]

NoDay ==
    [date |-> 0, failure |-> "", skipped |-> FALSE, agent_called |-> FALSE,
     traded |-> {},
     before |-> NewPortfolio(0), values_before |-> <<>>]

\* A ratio sqrt(252) * x / sqrt(v) of a mean x and a variance v, kept as the
\* pair of exact rationals it is computed from.
Ratio(x, v) == [x |-> x, v |-> v]
\* 0, float('inf') and nan as such pairs.
ZeroRatio == Ratio(Zero, RFromInt(1))
InfRatio == Ratio(RFromInt(1), Zero)
NaNRatio == Ratio(Zero, Zero)

\* None, where a date is expected.
NoDate == 0

\* performance_metrics as run_backtest creates it: every entry None.
NoMetrics ==
    [computed |-> FALSE, sharpe_ratio |-> ZeroRatio, sortino_ratio |-> ZeroRatio,
     max_drawdown |-> Zero, max_drawdown_date |-> NoDate]

\* The state after Backtester.__init__.
Constructed ==
    /\ end_date = LastDay
    /\ portfolio = NewPortfolio(initial_capital)
    /\ portfolio_values = <<>>
    /\ call = NoCall
    /\ prev = NoLot
    /\ ncalls = 0
    /\ pc = "new"
    /\ day = 0
    /\ tk = 0
    /\ current_prices = <<>>
    /\ missing_data = FALSE
    /\ decisions = <<>>
    /\ executed_trades = <<>>
    /\ day_log = NoDay
    /\ usable = {}
    /\ visited = {}
    /\ performance_metrics = NoMetrics

Init ==
    /\ initial_capital \in InitialCapitals
    /\ start_date = LastDay
    /\ Constructed

\* A caller invokes execute_trade on the Backtester.
ExecuteTrade(ticker, action, qk, current_price) ==
    /\ call.op = "none"
    /\ ncalls < MaxCalls
    /\ LET r == execute_trade(portfolio, ticker, action, qk, current_price)
       IN  /\ portfolio' = r.pf
           /\ call' = [NoCall EXCEPT !.op = "execute_trade", !.ticker = ticker,
                                     !.action = action, !.qk = qk,
                                     !.price = current_price, !.ret = r.ret,
                                     !.before = portfolio]
    /\ ncalls' = ncalls + 1
    /\ UNCHANGED <<initial_capital, start_date, end_date, portfolio_values, prev>>
    /\ UNCHANGED runvars
    /\ UNCHANGED metricvars

\* A caller invokes calculate_portfolio_value on the Backtester.
CalculatePortfolioValue(prices) ==
    /\ call.op = "none"
    /\ ncalls < MaxCalls
    /\ LET r == calculate_portfolio_value(portfolio, prices)
       IN  call' = [NoCall EXCEPT !.op = "calculate_portfolio_value",
                                  !.prices = prices, !.ret = r.value,
                                  !.raised = r.raised, !.before = portfolio]
    /\ ncalls' = ncalls + 1
    /\ UNCHANGED <<initial_capital, start_date, end_date, portfolio,
                   portfolio_values, prev>>
    /\ UNCHANGED runvars
    /\ UNCHANGED metricvars

\* A buy that opened a position and was filled in full: the ticker held no
\* share before it and the requested whole quantity was executed.
OpeningBuy(c) ==
    /\ c.op = "execute_trade"
    /\ c.action = "buy"
    /\ c.ret > 0
    /\ c.ret = IntQty(c.qk)
    /\ c.before.positions[c.ticker].shares = 0

\* What is kept of an opening buy: N shares of ticker at price, and the cash and
\* the ticker's realized gain before it.
Lot(c) ==
    [ticker |-> c.ticker, shares |-> c.ret, price |-> c.price,
     cash |-> c.before.cash, gains |-> c.before.realized_gains[c.ticker]]

\* The caller has taken the result; the next call may follow.
Return ==
    /\ call.op # "none"
    /\ prev' = IF OpeningBuy(call) THEN Lot(call) ELSE NoLot
    /\ call' = NoCall
    /\ UNCHANGED <<initial_capital, start_date, end_date, portfolio,
                   portfolio_values, ncalls>>
    /\ UNCHANGED runvars
    /\ UNCHANGED metricvars

Next ==
    \/ \E t \in TickerSet, a \in Actions, qk \in Quantities, p \in Prices :
           ExecuteTrade(t, a, qk, p)
    \/ \E m \in PriceMaps : CalculatePortfolioValue(m)
    \/ Return

Spec == Init /\ [][Next]_vars

\* --------------------------------------------------------- run_backtest
\* timedelta(days=30) of the lookback window.
LookbackDays == 30

IsBusinessDay(d) == d % 7 < 5

\* pd.date_range(start, end, freq="B"): the business days from start to end,
\* ascending.
RECURSIVE date_range(_, _)
date_range(start, end) ==
    IF start > end THEN <<>>
    ELSE IF IsBusinessDay(start) THEN <<start>> \o date_range(start + 1, end)
         ELSE date_range(start + 1, end)

dates == date_range(start_date, end_date)

\* Variant of decision_for: a decision without an action is a buy.
decision_for_default_buy(ds, ticker) ==
    LET decision == IF ticker \in DOMAIN ds THEN ds[ticker]
                    ELSE [action |-> "hold", quantity |-> 0]
    IN  [action |-> IF "action" \in DOMAIN decision
                    THEN decision.action ELSE "buy",
         quantity |-> IF "quantity" \in DOMAIN decision
                      THEN decision.quantity ELSE 0]

\* decision = decisions.get(ticker, {"action": "hold", "quantity": 0})
\* action, quantity = decision.get("action", "hold"), decision.get("quantity", 0)
decision_for(ds, ticker) ==
    LET decision == IF ticker \in DOMAIN ds THEN ds[ticker]
                    ELSE [action |-> "hold", quantity |-> 0]
    IN  [action |-> IF "action" \in DOMAIN decision
                    THEN decision.action ELSE "hold",
         quantity |-> IF "quantity" \in DOMAIN decision
                      THEN decision.quantity ELSE 0]

\* Variant of trade_loop: each trade starts from the portfolio as it was before
\* the loop, so only the last ticker's trade is kept.
RECURSIVE trade_loop_stale(_, _, _, _, _, _)
trade_loop_stale(pf, order, i, ds, prices, executed) ==
    IF i > Len(order) THEN [pf |-> pf, executed |-> executed]
    ELSE LET ticker == order[i]
             decision == decision_for(ds, ticker)
             r == execute_trade(pf, ticker, decision.action, decision.quantity,
                                prices[ticker])
         IN  IF i = Len(order)
             THEN [pf |-> r.pf, executed |-> executed @@ (ticker :> r.ret)]
             ELSE trade_loop_stale(pf, order, i + 1, ds, prices,
                                   executed @@ (ticker :> r.ret))

\* The loop "for ticker in self.tickers" that executes the trades, over the
\* tickers in `order` from position i on.
RECURSIVE trade_loop(_, _, _, _, _, _)
trade_loop(pf, order, i, ds, prices, executed) ==
    IF i > Len(order) THEN [pf |-> pf, executed |-> executed]
    ELSE LET ticker == order[i]
             decision == decision_for(ds, ticker)
             r == execute_trade(pf, ticker, decision.action, decision.quantity,
                                prices[ticker])
         IN  trade_loop(r.pf, order, i + 1, ds, prices,
                        executed @@ (ticker :> r.ret))

\* Variant of seed_values: the series is seeded with the last date of the range.
seed_values_last_date(ds, capital) ==
    IF Len(ds) > 0 THEN <<[Date |-> ds[Len(ds)], Value |-> capital]>> ELSE <<>>

\* Variant of seed_values: the series is not seeded.
seed_values_unseeded(ds, capital) == <<>>

\* The first record of the series, when the range has a date.
seed_values(ds, capital) ==
    IF Len(ds) > 0 THEN <<[Date |-> ds[1], Value |-> capital]>> ELSE <<>>

\* Variant of after_missing_data: the run gives up.
after_missing_data_abort == "raised"

\* Where the run goes on after a day whose price data is missing (continue).
after_missing_data == "loop"

\* Variant of missing_on_failure: the failed retrieval is not flagged.
missing_on_failure_unset == FALSE

\* missing_data = True, set when a retrieval returns nothing or raises.
missing_on_failure == TRUE

\* The agent's output: a decision for some of the tickers.
AgentOutputs == UNION {[S -> AgentDecisions] : S \in SUBSET TickerSet}

InitRun ==
    /\ initial_capital \in InitialCapitals
    /\ start_date \in StartDates
    /\ Constructed

\* run_backtest up to the date loop: prefetch, dates, the seeded series.
StartRun ==
    /\ pc = "new"
    /\ portfolio_values' = seed_values(dates, initial_capital)
    /\ day' = 1
    /\ pc' = "loop"
    /\ UNCHANGED <<initial_capital, start_date, end_date, portfolio, tk,
                   current_prices, missing_data, decisions, executed_trades,
                   day_log, usable, visited>>
    /\ UNCHANGED apivars
    /\ UNCHANGED metricvars

\* The head of "for current_date in dates": the window, the first-date check.
BeginDay ==
    /\ pc = "loop"
    /\ day <= Len(dates)
    /\ LET current_date == dates[day]
           lookback_start == current_date - LookbackDays
       IN  /\ day_log' = [NoDay EXCEPT !.date = current_date,
                                       !.before = portfolio,
                                       !.values_before = portfolio_values]
           /\ IF lookback_start = current_date
              THEN /\ day' = day + 1
                   /\ pc' = "loop"
                   /\ tk' = 0
              ELSE /\ pc' = "fetch"
                   /\ tk' = 1
                   /\ UNCHANGED day
    \* The locals of the previous iteration are dead here.
    /\ current_prices' = <<>>
    /\ missing_data' = FALSE
    /\ decisions' = <<>>
    /\ executed_trades' = <<>>
    /\ visited' = visited \cup {dates[day]}
    /\ UNCHANGED <<initial_capital, start_date, end_date, portfolio,
                   portfolio_values, usable>>
    /\ UNCHANGED apivars
    /\ UNCHANGED metricvars

\* get_price_data returned rows for the ticker; the last close is `price`.
FetchPrice(price) ==
    /\ pc = "fetch"
    /\ current_prices' = current_prices @@ (tickers[tk] :> price)
    /\ tk' = tk + 1
    /\ pc' = IF tk = Len(tickers) THEN "check" ELSE "fetch"
    /\ usable' = IF tk = Len(tickers) THEN usable \cup {dates[day]} ELSE usable
    /\ UNCHANGED <<initial_capital, start_date, end_date, portfolio,
                   portfolio_values, day, missing_data, decisions,
                   executed_trades, day_log, visited>>
    /\ UNCHANGED apivars
    /\ UNCHANGED metricvars

\* get_price_data returned an empty frame (kind "empty") or raised (kind
\* "error"): missing_data = True; break.
FetchFails(kind) ==
    /\ pc = "fetch"
    /\ missing_data' = missing_on_failure
    /\ day_log' = [day_log EXCEPT !.failure = kind]
    /\ pc' = "check"
    /\ UNCHANGED <<initial_capital, start_date, end_date, portfolio,
                   portfolio_values, day, tk, current_prices, decisions,
                   executed_trades, usable, visited>>
    /\ UNCHANGED apivars
    /\ UNCHANGED metricvars

\* if missing_data: continue
SkipDay ==
    /\ pc = "check"
    /\ missing_data
    /\ day_log' = [day_log EXCEPT !.skipped = TRUE]
    /\ day' = IF after_missing_data = "loop" THEN day + 1 ELSE day
    /\ pc' = after_missing_data
    /\ UNCHANGED <<initial_capital, start_date, end_date, portfolio,
                   portfolio_values, tk, current_prices, missing_data,
                   decisions, executed_trades, usable, visited>>
    /\ UNCHANGED apivars
    /\ UNCHANGED metricvars

\* output = self.agent(...); decisions = output["decisions"]
CallAgent(output) ==
    /\ pc = "check"
    /\ ~missing_data
    /\ decisions' = output
    /\ day_log' = [day_log EXCEPT !.agent_called = TRUE]
    /\ pc' = "trade"
    /\ UNCHANGED <<initial_capital, start_date, end_date, portfolio,
                   portfolio_values, day, tk, current_prices, missing_data,
                   executed_trades, usable, visited>>
    /\ UNCHANGED apivars
    /\ UNCHANGED metricvars

\* The trades of the day, one execute_trade per ticker in the list's order.
TradeAll ==
    /\ pc = "trade"
    /\ LET r == trade_loop(portfolio, tickers, 1, decisions, current_prices, <<>>)
       IN  /\ portfolio' = r.pf
           /\ executed_trades' = r.executed
    /\ day_log' = [day_log EXCEPT !.traded = TickerSet]
    /\ pc' = "record"
    /\ UNCHANGED <<initial_capital, start_date, end_date, portfolio_values, day,
                   tk, current_prices, missing_data, decisions, usable, visited>>
    /\ UNCHANGED apivars
    /\ UNCHANGED metricvars

\* total_value = calculate_portfolio_value(current_prices) and the append.
\* The rest of the iteration builds the table rows, which touch nothing of the
\* ledger; the metrics it updates are the subject of AppendAndUpdate.
RecordDay ==
    /\ pc = "record"
    /\ LET total_value == calculate_portfolio_value(portfolio, current_prices).value
       IN  portfolio_values' =
               Append(portfolio_values,
                      [Date |-> dates[day], Value |-> total_value])
    /\ day' = day + 1
    /\ pc' = "loop"
    /\ UNCHANGED <<initial_capital, start_date, end_date, portfolio, tk,
                   current_prices, missing_data, decisions, executed_trades,
                   day_log, usable, visited>>
    /\ UNCHANGED apivars
    /\ UNCHANGED metricvars

\* The date range is exhausted: run_backtest returns performance_metrics.
Finish ==
    /\ pc = "loop"
    /\ day > Len(dates)
    /\ pc' = "done"
    \* The locals of the loop are gone once the method has returned.
    /\ tk' = 0
    /\ current_prices' = <<>>
    /\ missing_data' = FALSE
    /\ decisions' = <<>>
    /\ executed_trades' = <<>>
    /\ day_log' = NoDay
    /\ UNCHANGED <<initial_capital, start_date, end_date, portfolio,
                   portfolio_values, day, usable, visited>>
    /\ UNCHANGED apivars
    /\ UNCHANGED metricvars

NextRun ==
    \/ StartRun
    \/ BeginDay
    \/ \E p \in RunPrices : FetchPrice(p)
    \/ \E kind \in {"empty", "error"} : FetchFails(kind)
    \/ SkipDay
    \/ \E output \in AgentOutputs : CallAgent(output)
    \/ TradeAll
    \/ RecordDay
    \/ Finish

SpecRun == InitRun /\ [][NextRun]_vars

\* The run is one sequential call: each of its steps is taken in the end.
FairSpecRun == SpecRun /\ WF_vars(NextRun)

\* The agent is any Callable.  portfolio=self.portfolio hands it the ledger
\* object itself ("ledger"), not a copy of it ("copy").
handed_portfolio == "ledger"

\* The cash an agent may write into the portfolio object it was handed.
AgentCash == {0, MaxCapital}

\* During its invocation the agent assigns portfolio["cash"] = cash on the
\* object it received; the ledger changes when that object is the ledger.
AgentWrites(cash) ==
    /\ pc = "check"
    /\ ~missing_data
    /\ portfolio' = IF handed_portfolio = "ledger"
                    THEN [portfolio EXCEPT !.cash = cash]
                    ELSE portfolio
    /\ UNCHANGED <<initial_capital, start_date, end_date, portfolio_values>>
    /\ UNCHANGED runvars
    /\ UNCHANGED apivars
    /\ UNCHANGED metricvars

\* The ways a response can be beyond interpretation: output["decisions"] is
\* not a mapping; the decision of one ticker is not a mapping; the quantity of
\* one ticker's decision is not a number.
MalformedKinds == {"decisions_not_mapping", "decision_not_mapping",
                   "quantity_not_number"}

\* The position of ticker in the tickers list.
index_of(ticker) == CHOOSE i \in 1..Len(tickers) : tickers[i] = ticker

\* The tickers the trade loop gets through before the statement that raises:
\* decisions.get (AttributeError) when decisions is not a mapping, at the first
\* ticker; decision.get (AttributeError) or quantity <= 0 (TypeError) at `ticker`.
traded_before_raise(kind, ticker) ==
    IF kind = "decisions_not_mapping" THEN <<>>
    ELSE SubSeq(tickers, 1, index_of(ticker) - 1)

\* The agent returns a response the loop cannot interpret: `output` is its
\* well-formed part, the decision of `ticker` the malformed one.  The trades of
\* the tickers before the raising statement are executed, then the exception
\* leaves run_backtest, which catches nothing here.
CallAgentMalformed(output, kind, ticker) ==
    /\ pc = "check"
    /\ ~missing_data
    /\ ticker \notin DOMAIN output
    /\ decisions' = output @@ (ticker :> [malformed |-> kind])
    /\ LET r == trade_loop(portfolio, traded_before_raise(kind, ticker), 1,
                           output, current_prices, <<>>)
       IN  /\ portfolio' = r.pf
           /\ executed_trades' = r.executed
    /\ day_log' = [day_log EXCEPT !.agent_called = TRUE,
                                  !.traded = DOMAIN executed_trades']
    /\ pc' = "raised"
    /\ UNCHANGED <<initial_capital, start_date, end_date, portfolio_values, day,
                   tk, current_prices, missing_data, usable, visited>>
    /\ UNCHANGED apivars
    /\ UNCHANGED metricvars

\* run_backtest with an agent that may write to its arguments and may return
\* anything.
NextOpenRun ==
    \/ NextRun
    \/ \E cash \in AgentCash : AgentWrites(cash)
    \/ \E output \in AgentOutputs, kind \in MalformedKinds, ticker \in TickerSet :
           CallAgentMalformed(output, kind, ticker)

SpecOpenRun == InitRun /\ [][NextOpenRun]_vars

\* ------------------------------------------------- performance metrics
\* The metrics are computed on series of small positive values.
MaxValue == 4
MaxRecords == 5
MetricValues == 1..MaxValue

\* Sum, difference and square of rationals, over the least common denominator.
RPlus(x, y) ==
    Only({ Rat(a.n * (b.d \div g) + b.n * (a.d \div g), a.d * (b.d \div g)) :
               a \in {x}, b \in {y}, g \in {GCD(x.d, y.d)} })
RMinus(x, y) ==
    Only({ Rat(a.n * (b.d \div g) - b.n * (a.d \div g), a.d * (b.d \div g)) :
               a \in {x}, b \in {y}, g \in {GCD(x.d, y.d)} })
RSquare(x) == Only({ Rat(a.n * a.n, a.d * a.d) : a \in {x} })
RLess(x, y) == x.n * y.d < y.n * x.d

\* Series.sum(), from position i on.
RECURSIVE series_sum(_, _)
series_sum(s, i) ==
    IF i > Len(s) THEN Zero ELSE RPlus(s[i], series_sum(s, i + 1))

\* Series.mean()
series_mean(s) == RDivInt(series_sum(s, 1), Len(s))

\* Series.std() squared: the sample variance (ddof = 1) of two or more values.
series_var(s) ==
    LET m == series_mean(s)
    IN  RDivInt(series_sum([i \in 1..Len(s) |-> RSquare(RMinus(s[i], m))], 1),
                Len(s) - 1)

\* The "Portfolio Value" column.
value_column(records) == [i \in 1..Len(records) |-> records[i].Value]

\* pct_change() without its first entry, which is NaN.
pct_change(values) ==
    [i \in 1..(Len(values) - 1) |-> Rat(values[i + 1] - values[i], values[i])]

\* daily_risk_free_rate = 0.0434 / 252
daily_risk_free_rate == Rat(434, 2520000)

\* Variant of sortino_without_downside: infinite whatever the mean.
sortino_without_downside_inf(mean_excess_return) == InfRatio

\* Variant of sortino_without_downside: 0 whatever the mean.
sortino_without_downside_zero(mean_excess_return) == ZeroRatio

\* float('inf') if mean_excess_return > 0 else 0
sortino_without_downside(mean_excess_return) ==
    IF mean_excess_return.n > 0 THEN InfRatio ELSE ZeroRatio

\* The Sharpe ratio of _update_performance_metrics.  A standard deviation that
\* is not 0 is far above 1e-12 on the series of the model.
sharpe_of(excess_returns) ==
    LET mean_excess_return == series_mean(excess_returns)
        var_excess_return == series_var(excess_returns)
    IN  IF var_excess_return # Zero
        THEN Ratio(mean_excess_return, var_excess_return)
        ELSE ZeroRatio

\* The Sortino ratio of _update_performance_metrics.  std() of a single
\* negative return is NaN, and NaN > 1e-12 is False.
sortino_of(excess_returns) ==
    LET mean_excess_return == series_mean(excess_returns)
        negative_returns == SelectSeq(excess_returns, LAMBDA e : e.n < 0)
    IN  IF Len(negative_returns) > 0
        THEN IF Len(negative_returns) > 1 /\ series_var(negative_returns) # Zero
             THEN Ratio(mean_excess_return, series_var(negative_returns))
             ELSE sortino_without_downside(mean_excess_return)
        ELSE sortino_without_downside(mean_excess_return)

\* cummax() at position i.
RECURSIVE rolling_max(_, _)
rolling_max(values, i) ==
    IF i = 1 THEN values[1]
    ELSE IF values[i] > rolling_max(values, i - 1)
         THEN values[i] ELSE rolling_max(values, i - 1)

\* Variant of drawdown_at: measured from the first value of the series.
drawdown_at_from_first(values, i) == Rat(values[i] - values[1], values[1])

\* drawdown = (value - rolling_max) / rolling_max, at position i.
drawdown_at(values, i) ==
    Rat(values[i] - rolling_max(values, i), rolling_max(values, i))

\* The position of drawdown.idxmin(): the first one with the least drawdown.
drawdown_argmin(values) ==
    CHOOSE i \in 1..Len(values) :
        /\ \A j \in 1..Len(values) :
               ~RLess(drawdown_at(values, j), drawdown_at(values, i))
        /\ \A j \in 1..(i - 1) :
               RLess(drawdown_at(values, i), drawdown_at(values, j))

\* drawdown.min()
min_drawdown(values) == drawdown_at(values, drawdown_argmin(values))

\* _update_performance_metrics(performance_metrics): the dict it leaves.
update_performance_metrics(records, metrics) ==
    LET values == value_column(records)
        clean_returns == pct_change(values)
        excess_returns == [i \in 1..Len(clean_returns) |->
                              RMinus(clean_returns[i], daily_risk_free_rate)]
    IN  IF Len(clean_returns) < 2 THEN metrics
        ELSE [computed |-> TRUE,
              sharpe_ratio |-> sharpe_of(excess_returns),
              sortino_ratio |-> sortino_of(excess_returns),
              max_drawdown |-> RScale(min_drawdown(values), 100),
              max_drawdown_date |->
                  IF min_drawdown(values).n < 0
                  THEN records[drawdown_argmin(values)].Date
                  ELSE NoDate]

\* returns_binary = (Daily Return > 0).astype(int)
returns_binary(daily_return) ==
    [i \in 1..Len(daily_return) |-> IF daily_return[i].n > 0 THEN 1 ELSE 0]

\* The length of the group of equal keys k that ends at position i, 0 when
\* the key at i is not k.
RECURSIVE group_ending_at(_, _, _)
group_ending_at(binary, k, i) ==
    IF i = 0 \/ binary[i] # k THEN 0
    ELSE 1 + group_ending_at(binary, k, i - 1)

\* max((len(list(g)) for key, g in itertools.groupby(binary) if key == k),
\* default=0)
longest_group(binary, k) ==
    LET lengths == {group_ending_at(binary, k, i) : i \in 1..Len(binary)} \cup {0}
    IN  CHOOSE m \in lengths : \A l \in lengths : l <= m

\* What analyze_performance computes of the Sharpe ratio, the drawdown and
\* the streaks.
analyze_performance(records, metrics) ==
    LET values == value_column(records)
        daily_return == <<Zero>> \o pct_change(values)
        sharpe == IF Len(daily_return) < 2 THEN NaNRatio
                  ELSE IF series_var(daily_return) # Zero
                       THEN Ratio(RMinus(series_mean(daily_return),
                                         daily_risk_free_rate),
                                  series_var(daily_return))
                       ELSE ZeroRatio
    IN  [records |-> Len(records),
         annualized_sharpe |-> sharpe,
         max_consecutive_wins |-> longest_group(returns_binary(daily_return), 1),
         max_consecutive_losses |-> longest_group(returns_binary(daily_return), 0),
         max_drawdown |-> IF metrics.computed THEN metrics.max_drawdown
                          ELSE RScale(min_drawdown(values), 100),
         max_drawdown_date |-> IF metrics.computed THEN metrics.max_drawdown_date
                               ELSE records[drawdown_argmin(values)].Date]

InitMetrics ==
    /\ initial_capital \in MetricValues
    /\ start_date = LastDay
    /\ Constructed

\* run_backtest seeds the series with the initial capital.
SeedSeries ==
    /\ pc = "new"
    /\ portfolio_values' = <<[Date |-> 1, Value |-> initial_capital]>>
    /\ day' = 1
    /\ pc' = "series"
    /\ UNCHANGED <<initial_capital, start_date, end_date, portfolio, tk,
                   current_prices, missing_data, decisions, executed_trades,
                   day_log, usable, visited>>
    /\ UNCHANGED apivars
    /\ UNCHANGED metricvars

\* Variant of metrics_due: the metrics are updated from the third record on.
metrics_due_from_three(values) == Len(values) >= 3

\* if len(self.portfolio_values) > 3
metrics_due(values) == Len(values) > 3

\* The end of a day of run_backtest: the record of the day is appended with
\* the day's valuation `total_value`, and the metrics are updated once the
\* series has more than 3 records.
AppendAndUpdate(total_value) ==
    /\ pc = "series"
    /\ call.op = "none"
    /\ Len(portfolio_values) < MaxRecords
    /\ portfolio_values' = Append(portfolio_values,
                                  [Date |-> day, Value |-> total_value])
    /\ performance_metrics' =
           IF metrics_due(portfolio_values')
           THEN update_performance_metrics(portfolio_values', performance_metrics)
           ELSE performance_metrics
    /\ day' = day + 1
    /\ UNCHANGED <<initial_capital, start_date, end_date, portfolio, pc, tk,
                   current_prices, missing_data, decisions, executed_trades,
                   day_log, usable, visited>>
    /\ UNCHANGED apivars

\* The run has returned with the series as it stands (self.performance_metrics
\* = performance_metrics) and the caller invokes analyze_performance.
AnalyzePerformance ==
    /\ pc = "series"
    /\ call.op = "none"
    /\ call' = [NoCall EXCEPT !.op = "analyze_performance",
                              !.ret = analyze_performance(portfolio_values,
                                                          performance_metrics)]
    /\ UNCHANGED <<initial_capital, start_date, end_date, portfolio,
                   portfolio_values, prev, ncalls>>
    /\ UNCHANGED runvars
    /\ UNCHANGED metricvars

NextMetrics ==
    \/ SeedSeries
    \/ \E v \in MetricValues : AppendAndUpdate(v)
    \/ AnalyzePerformance
    \/ Return

SpecMetrics == InitMetrics /\ [][NextMetrics]_vars

\* ------------------------------------------------------------- properties
\* The whole number of shares a requested quantity k / 2 stands for: 0 when
\* the request is not positive.
Whole(k) == IF k <= 0 THEN 0 ELSE k \div 2

Min(a, b) == IF a < b THEN a ELSE b

IsTrade(c) == c.op = "execute_trade"
IsBuy(c) == IsTrade(c) /\ c.action = "buy"
IsSell(c) == IsTrade(c) /\ c.action = "sell"
IsValuation(c) == c.op = "calculate_portfolio_value"

\* shares >= 0, and no cost basis is left on an empty position.
PositionsSound(pf) ==
    \A t \in TickerSet :
        /\ pf.positions[t].shares >= 0
        /\ pf.positions[t].shares = 0 => pf.positions[t].cost_basis = Zero

\* cost_basis == 0 exactly for the empty positions.
CostBasisIff(pf) ==
    \A t \in TickerSet :
        pf.positions[t].cost_basis = Zero <=> pf.positions[t].shares = 0

\* C1, as stated: after any sequence of execute_trade calls every position has
\* shares >= 0 and cost_basis == 0 if and only if shares == 0.
C1_Original ==
    \A t \in TickerSet :
        /\ portfolio.positions[t].shares >= 0
        /\ portfolio.positions[t].cost_basis = Zero
               <=> portfolio.positions[t].shares = 0

\* C1, amended: shares >= 0 and shares == 0 implies cost_basis == 0, always; and
\* a call at a positive fill price keeps cost_basis == 0 <=> shares == 0, so the
\* equivalence holds after every sequence of calls whose fill prices are positive.
C1_Amended ==
    /\ PositionsSound(portfolio)
    /\ (IsTrade(call) /\ call.price > 0 /\ CostBasisIff(call.before))
           => CostBasisIff(portfolio)

\* A sell at a positive price has liquidated a position that had a cost basis.
C1_Witness ==
    /\ IsSell(call)
    /\ call.price > 0
    /\ call.ret > 0
    /\ CostBasisIff(call.before)
    /\ call.before.positions[call.ticker].cost_basis # Zero
    /\ portfolio.positions[call.ticker].shares = 0

\* C2: cash is never negative; a buy debits exactly executed * price, never
\* more than the cash available, and executes at most floor(cash / price).
C2_CashNeverNegative ==
    /\ portfolio.cash >= 0
    /\ IsBuy(call) =>
           LET cash == call.before.cash
               debit == cash - portfolio.cash
           IN  /\ debit = call.ret * call.price
               /\ debit <= cash
               /\ call.price > 0 => call.ret <= cash \div call.price

\* A buy that asked for more than the cash allows has executed some shares.
C2_Witness ==
    /\ IsBuy(call)
    /\ Whole(call.qk) * call.price > call.before.cash
    /\ call.ret > 0

\* C3: a sell executes and returns min(requested, held before); the holding
\* goes down by that number and never below 0.
C3_SellClamped ==
    IsSell(call) =>
        LET held == call.before.positions[call.ticker].shares
        IN  /\ call.ret = Min(Whole(call.qk), held)
            /\ portfolio.positions[call.ticker].shares = held - call.ret
            /\ portfolio.positions[call.ticker].shares >= 0

\* A sell asked for more than was held, and the holding was sold.
C3_Witness ==
    /\ IsSell(call)
    /\ call.before.positions[call.ticker].shares > 0
    /\ Whole(call.qk) > call.before.positions[call.ticker].shares
    /\ call.ret = call.before.positions[call.ticker].shares

\* C4: a buy of q whole shares at price p with cash c executes q when
\* q * p <= c and floor(c / p) otherwise; cash goes down by executed * p and the
\* executed quantity is returned.
C4_BuyFill ==
    IsBuy(call) =>
        LET q == Whole(call.qk)
            p == call.price
            c == call.before.cash
        IN  /\ q * p <= c => call.ret = q
            /\ q * p > c => call.ret = c \div p
            /\ portfolio.cash = c - call.ret * p
            /\ portfolio.positions[call.ticker].shares =
                   call.before.positions[call.ticker].shares + call.ret

\* A buy was cut down to what the cash affords and used the cash up.
C4_Witness ==
    /\ IsBuy(call)
    /\ Whole(call.qk) * call.price > call.before.cash
    /\ call.ret = call.before.cash \div call.price
    /\ call.ret > 0
    /\ portfolio.cash = 0

\* The sell that closes a round trip: the call before it bought N shares of the
\* ticker, which held none, in full, and this call asks to sell N.
RoundTrip ==
    /\ prev # NoLot
    /\ IsSell(call)
    /\ call.ticker = prev.ticker
    /\ Whole(call.qk) = prev.shares

\* C5: buying N at P1 from an empty position and then selling the N at P2
\* realizes N * (P2 - P1), leaves cash at the cash before + N * (P2 - P1), and
\* the position at 0 shares with cost_basis 0.
C5_RoundTrip ==
    RoundTrip =>
        LET t == call.ticker
            gain == prev.shares * (call.price - prev.price)
        IN  /\ portfolio.realized_gains[t] = RAdd(prev.gains, RFromInt(gain))
            /\ portfolio.cash = prev.cash + gain
            /\ portfolio.positions[t].shares = 0
            /\ portfolio.positions[t].cost_basis = Zero

\* A round trip on a fresh ticker sold above the purchase price.
C5_Witness ==
    /\ RoundTrip
    /\ call.price > prev.price
    /\ prev.price > 0
    /\ prev.gains = Zero
    /\ portfolio.realized_gains[call.ticker]
           = RFromInt(prev.shares * (call.price - prev.price))
    /\ portfolio.cash = initial_capital + prev.shares * (call.price - prev.price)

\* The market value of the positions of the tickers in S.
RECURSIVE PositionsValue(_, _, _)
PositionsValue(S, pf, prices) ==
    IF S = {} THEN 0
    ELSE LET t == CHOOSE x \in S : TRUE
         IN  pf.positions[t].shares * prices[t]
                 + PositionsValue(S \ {t}, pf, prices)

\* C6: calculate_portfolio_value returns cash + the sum of shares * price over
\* the tickers, and changes neither the portfolio nor the value series.
C6_Valuation ==
    (IsValuation(call) /\ ~call.raised) =>
        /\ call.ret = portfolio.cash
                          + PositionsValue(TickerSet, portfolio, call.prices)
        /\ portfolio = call.before
        /\ portfolio_values = <<>>

\* A portfolio holding shares was valued above its cash.
C6_Witness ==
    /\ IsValuation(call)
    /\ ~call.raised
    /\ \E t \in TickerSet :
           portfolio.positions[t].shares > 0 /\ call.prices[t] > 0
    /\ portfolio.cash > 0
    /\ call.ret > portfolio.cash

ValueDates == {portfolio_values[i].Date : i \in 1..Len(portfolio_values)}
DateSet == {dates[i] : i \in 1..Len(dates)}

\* C7, as stated: the series holds one record per day with usable price data:
\* no date occurs twice in portfolio_values, and at the end of the run no day
\* with usable data is missing from it.
C7_OneRecordPerUsableDay ==
    /\ \A i, j \in 1..Len(portfolio_values) :
           i # j => portfolio_values[i].Date # portfolio_values[j].Date
    /\ pc = "done" => usable \subseteq ValueDates

\* C8: on a day with a failed price retrieval the agent is not invoked, no
\* trade is executed, no record is appended and the portfolio is unchanged; the
\* day ends skipped.
C8_MissingDataSkipsDay ==
    day_log.failure # "" =>
        /\ ~day_log.agent_called
        /\ day_log.traded = {}
        /\ portfolio = day_log.before
        /\ portfolio_values = day_log.values_before
        /\ pc \in {"check", "loop"}
        /\ pc = "loop" => day_log.skipped

\* A day was skipped after the first ticker's price had been retrieved, with
\* shares in the portfolio.
C8_Witness ==
    /\ day_log.skipped
    /\ pc = "loop"
    /\ tickers[1] \in DOMAIN current_prices
    /\ \E t \in TickerSet : portfolio.positions[t].shares > 0

\* C9: whatever days lack price data, the run reaches every date of the range
\* and returns.
C9_RunCompletes == <>(pc = "done" /\ visited = DateSet)

\* A run has returned after a day without usable data and a later day with it.
C9_Witness ==
    /\ pc = "done"
    /\ \E d1 \in visited \ usable : \E d2 \in usable : d2 > d1

\* The orders in which the tickers can be listed.
TickerOrders ==
    {o \in [1..Len(tickers) -> TickerSet] :
         \A i, j \in 1..Len(tickers) : i # j => o[i] # o[j]}

\* The trades of the day applied in every order give what the run has got.
SameInEveryOrder ==
    \A o \in TickerOrders :
        trade_loop(day_log.before, o, 1, decisions, current_prices, <<>>)
            = [pf |-> portfolio, executed |-> executed_trades]

\* What the day's buy decisions ask for in total.
RECURSIVE BuysCost(_, _, _)
BuysCost(S, ds, prices) ==
    IF S = {} THEN 0
    ELSE LET t == CHOOSE x \in S : TRUE
             d == decision_for(ds, t)
         IN  (IF d.action = "buy" THEN Whole(d.quantity) * prices[t] ELSE 0)
                 + BuysCost(S \ {t}, ds, prices)

\* C10, as stated: the state after the day's trades is the same for every
\* order of the tickers.
C10_Original == pc = "record" => SameInEveryOrder

\* C10, amended: when the cash at the start of the day covers all of the day's
\* buy decisions together, the state after the day's trades is the same for
\* every order of the tickers.
C10_Amended ==
    (pc = "record"
        /\ BuysCost(TickerSet, decisions, current_prices) <= day_log.before.cash)
        => SameInEveryOrder

\* Two tickers were traded on one day, one of them bought, within the cash.
C10_Witness ==
    /\ pc = "record"
    /\ BuysCost(TickerSet, decisions, current_prices) <= day_log.before.cash
    /\ \A t \in TickerSet : executed_trades[t] > 0
    /\ \E t \in TickerSet : decision_for(decisions, t).action = "buy"

\* C14: calculate_portfolio_value raises whenever the price map lacks a price
\* for a ticker that holds shares; when it returns, every ticker had a price.
C14_MissingPriceRaises ==
    IsValuation(call) =>
        /\ (\E t \in TickerSet : /\ portfolio.positions[t].shares # 0
                                 /\ t \notin DOMAIN call.prices) => call.raised
        /\ ~call.raised => DOMAIN call.prices = TickerSet

\* A valuation raised: a held ticker had no price while another had one.
C14_Witness ==
    /\ IsValuation(call)
    /\ call.raised
    /\ \E t \in TickerSet : /\ portfolio.positions[t].shares > 0
                            /\ t \notin DOMAIN call.prices
    /\ DOMAIN call.prices # {}

RatIs(x, num, den) == x.n * den = num * x.d

\* C19: after an executed buy of e shares at price p the cost basis is
\* (old_shares * old_cost_basis + e * p) / (old_shares + e), in both branches.
C19_WeightedAverage ==
    (IsBuy(call) /\ call.ret > 0) =>
        LET old == call.before.positions[call.ticker]
            e == call.ret
        IN  RatIs(portfolio.positions[call.ticker].cost_basis,
                  old.shares * old.cost_basis.n + e * call.price * old.cost_basis.d,
                  old.cost_basis.d * (old.shares + e))

\* A buy cut down to what the cash affords was merged into a position bought
\* at another price.
C19_Witness ==
    /\ IsBuy(call)
    /\ call.ret > 0
    /\ call.ret < Whole(call.qk)
    /\ call.before.positions[call.ticker].shares > 0
    /\ call.before.positions[call.ticker].cost_basis # RFromInt(call.price)
    /\ portfolio.positions[call.ticker].cost_basis
           # call.before.positions[call.ticker].cost_basis

\* C20: an executed sell of e > 0 shares at price p adds (p - cost_basis
\* before) * e to the ticker's realized gains, credits cash by e * p, and keeps
\* the cost basis unless the position is emptied, when it is reset to 0.
C20_SellAccounting ==
    (IsSell(call) /\ call.ret > 0) =>
        LET t == call.ticker
            old == call.before.positions[t]
            e == call.ret
        IN  /\ RSub(portfolio.realized_gains[t], call.before.realized_gains[t])
                   = RScale(RSub(RFromInt(call.price), old.cost_basis), e)
            /\ portfolio.cash = call.before.cash + e * call.price
            /\ portfolio.positions[t].cost_basis =
                   IF portfolio.positions[t].shares = 0 THEN Zero ELSE old.cost_basis

\* A part of a position was sold above its cost: a gain, and the basis kept.
C20_Witness ==
    /\ IsSell(call)
    /\ call.ret > 0
    /\ portfolio.positions[call.ticker].shares > 0
    /\ portfolio.positions[call.ticker].cost_basis # Zero
    /\ RSub(portfolio.realized_gains[call.ticker],
            call.before.realized_gains[call.ticker]).n > 0

\* The parameters the constructor was given are malformed.
Malformed == initial_capital <= 0 \/ end_date < start_date

\* C13, as stated: a Backtester constructed with malformed parameters (end date
\* before start date, or non-positive initial capital) takes no simulation
\* step: the run never gets past the constructed state.
C13_FailsAtConstruction == Malformed => pc = "new"

\* C18, as stated: nothing the agent does to the portfolio object it is handed
\* changes the ledger: from the start of a day until the day's trades, no
\* execute_trade has run and the ledger is the one the day started with.
C18_AgentCannotChangeLedger ==
    pc \in {"check", "trade"} => portfolio = day_log.before

\* C12, as stated: a response the driver cannot interpret counts as {hold, 0}
\* for that ticker and the run goes on: run_backtest is never left by an
\* exception.
C12_UninterpretableIsHold == pc # "raised"

\* The quotient x / y of rationals, y # 0, common factors cancelled first.
RQuot(x, y) ==
    LET gn == GCD(Abs(x.n), Abs(y.n))
        gd == GCD(x.d, y.d)
        sign == IF y.n < 0 THEN 0 - 1 ELSE 1
    IN  Rat(sign * (x.n \div gn) * (y.d \div gd), (Abs(y.n) \div gn) * (x.d \div gd))

\* a = p * p, for naturals, without forming the product.
IsSquareOf(a, p) == p > 0 /\ a % p = 0 /\ a \div p = p

\* Two ratios x / sqrt(v) are the same number.
SameRatio(a, b) ==
    IF a.v = Zero \/ b.v = Zero THEN a = b /\ a # NaNRatio
    ELSE IF a.x = Zero \/ b.x = Zero THEN a.x = b.x
    ELSE /\ (a.x.n > 0) = (b.x.n > 0)
         /\ LET r == RQuot(a.x, b.x)
                q == RQuot(a.v, b.v)
            IN  IsSquareOf(q.n, r.n) /\ IsSquareOf(q.d, r.d)

\* C11, as stated: the metrics computed after day k by
\* _update_performance_metrics equal those analyze_performance computes on the
\* same k records: the same Sharpe ratio and the same maximum drawdown.
C11_IncrementalEqualsExhaustive ==
    (call.op = "analyze_performance" /\ call.ret.records > 3) =>
        /\ SameRatio(call.ret.annualized_sharpe, performance_metrics.sharpe_ratio)
        /\ call.ret.max_drawdown = performance_metrics.max_drawdown

\* Every value of the series is the same.
ConstantSeries ==
    \A i \in 1..Len(portfolio_values) :
        portfolio_values[i].Value = portfolio_values[1].Value

\* C16: on a constant value series the computed Sharpe and Sortino ratios are
\* both exactly 0.
C16_FlatSeriesZeroRatios ==
    (performance_metrics.computed /\ ConstantSeries) =>
        /\ performance_metrics.sharpe_ratio = ZeroRatio
        /\ performance_metrics.sortino_ratio = ZeroRatio

\* The metrics were computed on a constant series of more than 3 records.
C16_Witness ==
    /\ performance_metrics.computed
    /\ ConstantSeries
    /\ Len(portfolio_values) > 3
    /\ portfolio_values[1].Value > 1
    /\ performance_metrics.sharpe_ratio = ZeroRatio
    /\ performance_metrics.sortino_ratio = ZeroRatio

\* The greatest of the first i values of the series.
PeakUpTo(i) ==
    CHOOSE m \in {portfolio_values[j].Value : j \in 1..i} :
        \A j \in 1..i : portfolio_values[j].Value <= m

\* (value[i] - max(value[0..i])) / max(value[0..i]), in percent.
DrawdownPct(i) ==
    RScale(Rat(portfolio_values[i].Value - PeakUpTo(i), PeakUpTo(i)), 100)

\* The reported max_drawdown is the least DrawdownPct of the series.
DrawdownIsMinimum ==
    /\ \E i \in 1..Len(portfolio_values) :
           performance_metrics.max_drawdown = DrawdownPct(i)
    /\ \A i \in 1..Len(portfolio_values) :
           ~RLess(DrawdownPct(i), performance_metrics.max_drawdown)

\* The reported date is the date of the first record with the least drawdown.
DateOfMinimum ==
    \E i \in 1..Len(portfolio_values) :
        /\ performance_metrics.max_drawdown_date = portfolio_values[i].Date
        /\ performance_metrics.max_drawdown = DrawdownPct(i)
        /\ \A j \in 1..(i - 1) : RLess(DrawdownPct(i), DrawdownPct(j))

\* C17, as stated: max_drawdown is the minimum over the series of
\* (value[i] - max(value[0..i])) / max(value[0..i]) in percent, and
\* max_drawdown_date is the date of the record at which the minimum occurs.
C17_Original ==
    performance_metrics.computed => (DrawdownIsMinimum /\ DateOfMinimum)

\* C17, amended: max_drawdown is that minimum; max_drawdown_date is the date
\* of the first record at which it occurs when the minimum is negative, and
\* None when the series never falls below its running maximum.
C17_Amended ==
    performance_metrics.computed =>
        /\ DrawdownIsMinimum
        /\ performance_metrics.max_drawdown.n < 0 => DateOfMinimum
        /\ performance_metrics.max_drawdown.n = 0 =>
               performance_metrics.max_drawdown_date = NoDate

\* A series that rises by a third, falls back and recovers: -25% at the third
\* record.
C17_Witness ==
    /\ performance_metrics.computed
    /\ Len(portfolio_values) = 4
    /\ portfolio_values[2].Value > portfolio_values[1].Value
    /\ portfolio_values[4].Value > portfolio_values[3].Value
    /\ performance_metrics.max_drawdown = RFromInt(0 - 25)
    /\ performance_metrics.max_drawdown_date = portfolio_values[3].Date

\* The sum over the tickers in S of f[t], for rationals f[t].
RECURSIVE RSumOver(_, _)
RSumOver(S, f) ==
    IF S = {} THEN Zero
    ELSE LET t == CHOOSE x \in S : TRUE
         IN  RAdd(f[t], RSumOver(S \ {t}, f))

\* C21: conservation of the ledger: cash + the sum over the tickers of
\* shares * cost_basis equals initial_capital + the sum of the realized gains.
C21_Conservation ==
    RAdd(RFromInt(portfolio.cash),
         RSumOver(TickerSet, [t \in TickerSet |->
                                 RScale(portfolio.positions[t].cost_basis,
                                        portfolio.positions[t].shares)]))
        = RAdd(RFromInt(initial_capital),
               RSumOver(TickerSet, portfolio.realized_gains))

\* A part of a position bought at two prices was sold at a gain; shares remain
\* on a basis that is not a whole number.
C21_Witness ==
    /\ IsSell(call)
    /\ call.ret > 0
    /\ portfolio.positions[call.ticker].shares > 0
    /\ portfolio.positions[call.ticker].cost_basis.d > 1
    /\ portfolio.realized_gains[call.ticker] # Zero

\* C25: realized_gains[ticker] changes only when a sell on that ticker executes
\* a positive quantity; every other call, a valuation included, leaves every
\* realized gain as it was.
C25_GainsOnlyBySell ==
    call.op # "none" =>
        \A t \in TickerSet :
            portfolio.realized_gains[t] # call.before.realized_gains[t] =>
                (IsSell(call) /\ call.ticker = t /\ call.ret > 0)

\* A sell on one ticker realized a gain while the other ticker, which holds
\* shares and has a realized gain of its own, kept it.
C25_Witness ==
    /\ IsSell(call)
    /\ call.ret > 0
    /\ portfolio.realized_gains[call.ticker]
           # call.before.realized_gains[call.ticker]
    /\ \E t \in TickerSet \ {call.ticker} :
           /\ portfolio.positions[t].shares > 0
           /\ portfolio.realized_gains[t] = call.before.realized_gains[t]

\* The value of portfolio pf marked at the prices of the day.
MarkedValue(pf) == calculate_portfolio_value(pf, current_prices).value

\* The day's trades have been executed (and perhaps its record appended).
DayTraded == day_log.traded # {} /\ pc \in {"record", "loop"}

\* C22: the trades of a day leave cash + shares * price unchanged, so that the
\* value recorded for the day is the value of the portfolio the day started
\* with, marked at the day's prices, whatever the agent decided.
C22_TradesPreserveValue ==
    DayTraded =>
        /\ MarkedValue(portfolio) = MarkedValue(day_log.before)
        /\ pc = "loop" =>
               portfolio_values[Len(portfolio_values)].Value
                   = MarkedValue(day_log.before)

\* A day on which a position bought earlier at another price was sold and
\* another ticker was bought has been recorded.
C22_Witness ==
    /\ DayTraded
    /\ pc = "loop"
    /\ \E t \in TickerSet : /\ decision_for(decisions, t).action = "sell"
                            /\ executed_trades[t] > 0
                            /\ day_log.before.positions[t].cost_basis
                                   # RFromInt(current_prices[t])
    /\ \E t \in TickerSet : /\ decision_for(decisions, t).action = "buy"
                            /\ executed_trades[t] > 0

\* C24: the value series is append-only and date-ordered: a step leaves it as
\* it is or extends it by one record whose date is not earlier than the last
\* record's; no earlier record is changed, removed or reordered.
C24_AppendOnlyInDateOrder ==
    [][\/ portfolio_values' = portfolio_values
       \/ /\ Len(portfolio_values') = Len(portfolio_values) + 1
          /\ SubSeq(portfolio_values', 1, Len(portfolio_values)) = portfolio_values
          /\ Len(portfolio_values) > 0 =>
                 portfolio_values'[Len(portfolio_values')].Date
                     >= portfolio_values[Len(portfolio_values)].Date]_vars

\* The series has grown over a day without data: records lie on both sides
\* of a skipped day.
C24_Witness ==
    /\ Len(portfolio_values) >= 3
    /\ portfolio_values[Len(portfolio_values)].Date > portfolio_values[1].Date
    /\ \E d \in visited \ usable :
           /\ d > portfolio_values[1].Date
           /\ d < portfolio_values[Len(portfolio_values)].Date

\* The days whose record has been appended: those with usable prices, but for
\* the day in progress.
Recorded ==
    IF pc \in {"check", "trade", "record"} THEN usable \ {dates[day]} ELSE usable

\* C28: when the range has a business day the series is seeded with (first
\* date, initial_capital) before any day is processed, and from then on it has
\* 1 + the number of days processed without being skipped records; with an
\* empty range the series stays empty and the metrics None.
C28_SeededSeries ==
    /\ (pc # "new" /\ Len(dates) > 0) =>
           /\ Len(portfolio_values) = 1 + Cardinality(Recorded)
           /\ portfolio_values[1] = [Date |-> dates[1], Value |-> initial_capital]
    /\ Len(dates) = 0 =>
           /\ portfolio_values = <<>>
           /\ performance_metrics = NoMetrics

\* A run has returned; one of its days was skipped, two were recorded.
C28_Witness ==
    /\ pc = "done"
    /\ Len(portfolio_values) = 3
    /\ Cardinality(visited) = 3

\* A run over an empty date range has returned.
C28_EmptyRange == pc = "done" /\ Len(dates) = 0

\* C23: after a day's record is appended the metrics are those of
\* _update_performance_metrics on the full series so far if and only if the
\* series has more than 3 records; until then sharpe_ratio, sortino_ratio and
\* max_drawdown are None.
C23_UpdatedBeyondThreeRecords ==
    pc = "series" =>
        /\ Len(portfolio_values) > 3 =>
               /\ performance_metrics.computed
               /\ performance_metrics =
                      update_performance_metrics(portfolio_values, NoMetrics)
        /\ Len(portfolio_values) <= 3 => performance_metrics = NoMetrics

\* The fourth record has just been appended and the metrics are computed, on
\* a series that is not constant.
C23_Witness ==
    /\ pc = "series"
    /\ Len(portfolio_values) = 4
    /\ performance_metrics.computed
    /\ portfolio_values[4].Value # portfolio_values[3].Value
    /\ performance_metrics.sharpe_ratio # ZeroRatio

\* The daily excess return of record i + 1 of the series.
ExcessReturn(i) ==
    RMinus(Rat(portfolio_values[i + 1].Value - portfolio_values[i].Value,
               portfolio_values[i].Value),
           daily_risk_free_rate)

\* The sign of the sum, hence of the mean, of the excess returns from i on.
RECURSIVE ExcessSum(_)
ExcessSum(i) ==
    IF i > Len(portfolio_values) - 1 THEN Zero
    ELSE RPlus(ExcessReturn(i), ExcessSum(i + 1))

NoNegativeExcess ==
    \A i \in 1..(Len(portfolio_values) - 1) : ExcessReturn(i).n >= 0

\* C26: when no daily excess return of the series is negative, the Sortino
\* ratio is +infinity if the mean excess return is > 0 and 0 otherwise.
C26_SortinoWithoutDownside ==
    (performance_metrics.computed /\ NoNegativeExcess) =>
        performance_metrics.sortino_ratio =
            IF ExcessSum(1).n > 0 THEN InfRatio ELSE ZeroRatio

\* The metrics of a series that rises every day: the Sortino ratio is
\* infinite.
C26_Witness ==
    /\ performance_metrics.computed
    /\ Len(portfolio_values) > 3
    /\ \A i \in 1..(Len(portfolio_values) - 1) :
           portfolio_values[i + 1].Value > portfolio_values[i].Value
    /\ NoNegativeExcess
    /\ performance_metrics.sortino_ratio = InfRatio

\* Some record of the series lies below an earlier one.
FellBelowPeak ==
    \E i \in 1..Len(portfolio_values) : \E j \in 1..(i - 1) :
        portfolio_values[i].Value < portfolio_values[j].Value

\* C30: once the metrics are computed, max_drawdown is never positive and
\* max_drawdown_date is set exactly when max_drawdown is strictly negative,
\* which is when the series fell below its running peak.
C30_DrawdownSignAndDate ==
    performance_metrics.computed =>
        /\ performance_metrics.max_drawdown.n <= 0
        /\ (performance_metrics.max_drawdown_date # NoDate)
               <=> (performance_metrics.max_drawdown.n < 0)
        /\ (performance_metrics.max_drawdown.n < 0) <=> FellBelowPeak

\* A series that fell below its peak and ended on a new peak: the drawdown is
\* negative and dated.
C30_Witness ==
    /\ performance_metrics.computed
    /\ FellBelowPeak
    /\ \A i \in 1..(Len(portfolio_values) - 1) :
           portfolio_values[i].Value
               < portfolio_values[Len(portfolio_values)].Value
    /\ performance_metrics.max_drawdown.n < 0
    /\ performance_metrics.max_drawdown_date # NoDate

\* A series that never fell: the drawdown is 0 and has no date.
C30_NoDrawdown ==
    /\ performance_metrics.computed
    /\ ~FellBelowPeak
    /\ ~ConstantSeries
    /\ performance_metrics.max_drawdown = Zero
    /\ performance_metrics.max_drawdown_date = NoDate

\* The sign of the daily return of record i: the first record has none and
\* counts as 0 (fillna(0)).
ReturnSign(i) ==
    IF i = 1 THEN 0
    ELSE IF portfolio_values[i].Value > portfolio_values[i - 1].Value THEN 1
    ELSE IF portfolio_values[i].Value < portfolio_values[i - 1].Value THEN 0 - 1
    ELSE 0

\* The length of the longest run of consecutive records whose ReturnSign is in
\* `signs`.
LongestRun(signs) ==
    LET runs == {b - a + 1 : a \in 1..Len(portfolio_values),
                             b \in 1..Len(portfolio_values)}
                \cap {n \in 1..Len(portfolio_values) :
                        \E a \in 1..(Len(portfolio_values) - n + 1) :
                            \A i \in a..(a + n - 1) : ReturnSign(i) \in signs}
        lengths == runs \cup {0}
    IN  CHOOSE m \in lengths : \A l \in lengths : l <= m

\* C27, as stated: the longest winning streak is the longest run of
\* consecutive days of positive daily return, and the longest losing streak
\* the longest run of consecutive days of negative daily return.
C27_StreaksBySign ==
    call.op = "analyze_performance" =>
        /\ call.ret.max_consecutive_wins = LongestRun({1})
        /\ call.ret.max_consecutive_losses = LongestRun({0 - 1})

\* What the code computes: the losing streak is the longest run of days whose
\* return is not positive, the first day and flat days included.
C27_LossesAreNotWins ==
    call.op = "analyze_performance" =>
        /\ call.ret.max_consecutive_wins = LongestRun({1})
        /\ call.ret.max_consecutive_losses = LongestRun({0, 0 - 1})

\* analyze_performance on a series that only rose reports a losing streak.
C27_LosingStreakWithoutLoss ==
    /\ call.op = "analyze_performance"
    /\ Len(portfolio_values) >= 3
    /\ \A i \in 2..Len(portfolio_values) : ReturnSign(i) = 1
    /\ call.ret.max_consecutive_losses = 1

\* The agent's decisions do not give ticker t both an action and a quantity.
Defaulted(t) ==
    \/ t \notin DOMAIN decisions
    \/ "action" \notin DOMAIN decisions[t]
    \/ "quantity" \notin DOMAIN decisions[t]

\* The day's trades with the defaulted tickers left out: execute_trade for
\* the tickers of `order` from position i on that have a whole decision.
RECURSIVE WholeDecisionsApplied(_, _, _)
WholeDecisionsApplied(pf, order, i) ==
    IF i > Len(order) THEN pf
    ELSE IF Defaulted(order[i]) THEN WholeDecisionsApplied(pf, order, i + 1)
    ELSE WholeDecisionsApplied(
             execute_trade(pf, order[i], decisions[order[i]].action,
                           decisions[order[i]].quantity,
                           current_prices[order[i]]).pf,
             order, i + 1)

\* C29: a ticker absent from the decisions, or whose decision lacks an action
\* or a quantity, is a hold of 0: its executed quantity is recorded as 0 and
\* nothing of its position or gains changes, the other tickers' decisions are
\* applied, and the day's record is appended.
C29_DefaultedIsHold ==
    DayTraded =>
        /\ \A t \in TickerSet :
               Defaulted(t) =>
                   /\ executed_trades[t] = 0
                   /\ portfolio.positions[t] = day_log.before.positions[t]
                   /\ portfolio.realized_gains[t] = day_log.before.realized_gains[t]
        /\ portfolio = WholeDecisionsApplied(day_log.before, tickers, 1)
        /\ pc = "loop" =>
               /\ portfolio_values = Append(day_log.values_before,
                      [Date |-> dates[day - 1], Value |-> MarkedValue(portfolio)])

\* A day's record was appended after a decision without an action, for a
\* ticker that holds shares and with cash at hand, was passed over and the
\* other ticker's decision was executed.
C29_Witness ==
    /\ DayTraded
    /\ pc = "loop"
    /\ \E t \in TickerSet :
           /\ t \in DOMAIN decisions
           /\ "action" \notin DOMAIN decisions[t]
           /\ day_log.before.positions[t].shares > 0
           /\ day_log.before.cash >= current_prices[t]
           /\ executed_trades[t] = 0
    /\ \E t \in TickerSet : ~Defaulted(t) /\ executed_trades[t] > 0

\* A decision to buy without a quantity bought nothing.
C29_BuyWithoutQuantity ==
    /\ DayTraded
    /\ \E t \in TickerSet :
           /\ t \in DOMAIN decisions
           /\ "quantity" \notin DOMAIN decisions[t]
           /\ day_log.before.cash >= current_prices[t]
           /\ executed_trades[t] = 0

====
